---- MODULE Spec2Model ----
(***************************************************************************)
(* The orchestration graph of the medical co-pilot (src/agents/graph.py)   *)
(* and its nodes, as a state machine over per-session AgentState.          *)
(*                                                                         *)
(* A session is a checkpointer thread (app.py: thread_id).  A cycle is one *)
(* agent_graph.stream call: the user turn is merged into the session's     *)
(* state and the nodes run one at a time from the entry point "triage".    *)
(* After every node the node's returned dict is merged into the state:     *)
(* only the keys that AgentState declares are channels of the graph, the   *)
(* "messages" channel merges with operator.add, every other channel keeps  *)
(* the last value written.  A conditional edge reads the merged state.     *)
(***************************************************************************)
EXTENDS Integers, Sequences, FiniteSets, TLC

(* ------------------------------ bounds -------------------------------- *)
\* user messages submitted over all sessions
MaxCycles == 3
\* turns with tool-call requests the reasoning engine emits over all sessions
MaxToolRounds == 1
\* turns in all transcripts together while several sessions are at work
MaxTurns == 12

(* ----------------------------- constants ------------------------------ *)
Sessions == {"s1", "s2"}
MainSession == "s1"
PatientIds == {"p1", "p2"}
\* Python's None, and the text value of a key that carries no value
None == "None"
END == "__end__"

\* graph.py:60  `retries < 3`
RetryLimit == 3
\* retrieval.py:60  limit=4
SearchLimit == 4

\* app.py:117: the config of agent_graph.stream names a thread_id and no
\* recursion_limit, so the graph runs at most the 25 steps that are
\* langgraph's default before it raises GraphRecursionError
RecursionLimit == 25

\* truth value of an Optional[str]
Truthy(v) == v # None /\ v # ""

(* ------------------------------- turns -------------------------------- *)
\* One message of the transcript.  tool_calls is the sequence of tool names
\* an assistant turn requests, name the tool a tool turn answers.
Turn(role, kind, tool_calls, name) ==
    [role |-> role, kind |-> kind, tool_calls |-> tool_calls, name |-> name]

HumanMessage == Turn("user", "query", <<>>, None)

(* ------------------------------ sessions ------------------------------ *)
\* every browser session checkpoints under one and the same thread
thread_id_shared(s) == MainSession

\* app.py:29-30, 117: a session's checkpoints are kept under its own
\* thread_id, a uuid4 drawn when the session starts
thread_id(s) == s

(* ------------------------------ AgentState ---------------------------- *)
\* The keys a node writes that AgentState does not declare.
ControlKeys == {"triage_intent", "search_query", "grading_status", "retrieval_retries"}

\* a schema that also declares the control keys
AgentStateDeclaringControlKeys ==
    {"messages", "patient_id", "patient_data", "retrieved_docs",
     "initial_assessment", "treatment_plan", "critique",
     "confidence_score", "needs_revision"} \cup ControlKeys

\* a schema that declares the verdict but not the retry counter
AgentStateDeclaringVerdict ==
    {"messages", "patient_id", "patient_data", "retrieved_docs",
     "initial_assessment", "treatment_plan", "critique",
     "confidence_score", "needs_revision", "grading_status"}

\* state.py: the keys of the TypedDict, which are the channels of the graph
AgentState ==
    {"messages", "patient_id", "patient_data", "retrieved_docs",
     "initial_assessment", "treatment_plan", "critique",
     "confidence_score", "needs_revision"}

\* state.get(key, default): a channel without a value is not in the dict
Get(st, key, default) == IF key \in DOMAIN st THEN st[key] ELSE default

EmptyState == [k \in {} |-> None]

\* messages: Annotated[List[BaseMessage], operator.add], replaced instead
MergeReplace(old, new) == new

\* messages: Annotated[List[BaseMessage], operator.add]
MergeMessages(old, new) == old \o new

\* The update a node returns, merged into the state: undeclared keys are
\* not channels and are dropped, messages are added, the rest is replaced.
ApplyUpdate(st, upd) ==
    LET written == DOMAIN upd \cap AgentState
    IN  [k \in DOMAIN st \cup written |->
            IF k \in written
            THEN IF k = "messages"
                 THEN MergeMessages(Get(st, "messages", <<>>), upd[k])
                 ELSE upd[k]
            ELSE st[k]]

\* What a node hands back: a dict to merge, or an exception that leaves the
\* node; calls names the external services the node invoked on the way.
Return(upd, calls) == [raised |-> FALSE, upd |-> upd, calls |-> calls]
Raise(calls) == [raised |-> TRUE, upd |-> EmptyState, calls |-> calls]

IsPrefix(a, b) == Len(a) <= Len(b) /\ SubSeq(b, 1, Len(a)) = a

(* ------------------------------- triage ------------------------------- *)
\* What structured_llm.invoke does in triage: it raises (or returns
\* something that is no TriageOutput), or it returns a TriageOutput.
TriageOutcomes ==
    [failed : {TRUE}, patient_id : {None}, missing_info : {FALSE}] \cup
    [failed : {FALSE}, patient_id : PatientIds \cup {None}, missing_info : BOOLEAN]

\* triage.py:43-63: the local names bound when the try statement is left
triage_locals(out) ==
    IF out.failed
    THEN [patient_id |-> None,
          triage_msg |-> Turn("system", "triage_error", <<>>, None)]
    ELSE [patient_id |-> out.patient_id,
          intent |-> "intent",
          triage_msg |-> Turn("system", "triage_analysis", <<>>, None)]

\* triage that writes whatever the classifier extracted
triage_node_overwriting(st, out) ==
    LET loc == triage_locals(out)
    IN  IF "intent" \notin DOMAIN loc
        THEN Raise({"llm"})
        ELSE Return([patient_id |-> loc.patient_id,
                     triage_intent |-> loc.intent,
                     messages |-> <<loc.triage_msg>>], {"llm"})

\* triage.py:17-70.  The return statement reads `intent`, which the except
\* branch never binds: after a classifier failure the node raises.
triage_node(st, out) ==
    LET loc == triage_locals(out)
    IN  IF "intent" \notin DOMAIN loc
        THEN Raise({"llm"})
        ELSE Return([patient_id |-> IF Truthy(loc.patient_id)
                                    THEN loc.patient_id
                                    ELSE Get(st, "patient_id", None),
                     triage_intent |-> loc.intent,
                     messages |-> <<loc.triage_msg>>], {"llm"})

\* the exit of triage with the two tests in the other order
check_patient_id_fetch_first(st) ==
    IF Truthy(Get(st, "patient_id", None)) THEN "fetch_data"
    ELSE IF Truthy(Get(st, "patient_data", None)) THEN "retrieve_knowledge"
    ELSE END

\* the exit of triage that fetches whether or not an id is known
check_patient_id_unguarded(st) ==
    IF Truthy(Get(st, "patient_data", None)) THEN "retrieve_knowledge"
    ELSE "fetch_data"

\* graph.py:29-40
check_patient_id(st) ==
    IF Truthy(Get(st, "patient_data", None)) THEN "retrieve_knowledge"
    ELSE IF Truthy(Get(st, "patient_id", None)) THEN "fetch_data"
    ELSE END

(* ----------------------------- fetch_data ----------------------------- *)
\* fetch_patient_record.invoke returns the record text or raises
FetchOutcomes == {"ok", "raise"}

PatientRecordText(pid) == IF pid = "p1" THEN "record of p1" ELSE "record of p2"

\* a fetch that leaves no record behind when the record store fails
data_fetcher_node_clearing(st, out) ==
    LET id == Get(st, "patient_id", None)
    IN  IF ~Truthy(id)
        THEN Return([messages |-> <<Turn("assistant", "need_patient_id", <<>>, None)>>], {})
        ELSE Return([patient_data |-> IF out = "raise" THEN "" ELSE PatientRecordText(id),
                     messages |-> <<Turn("system", "fetch_success", <<>>, None)>>],
                    {"fhir"})

\* data_fetcher.py:4-27
data_fetcher_node(st, out) ==
    LET patient_id == Get(st, "patient_id", None)
    IN  IF ~Truthy(patient_id)
        THEN Return([messages |-> <<Turn("assistant", "need_patient_id", <<>>, None)>>], {})
        ELSE Return([patient_data |-> IF out = "raise"
                                      THEN "Error fetching data"
                                      ELSE PatientRecordText(patient_id),
                     messages |-> <<Turn("system", "fetch_success", <<>>, None)>>],
                    {"fhir"})

(* --------------------------- the record store ------------------------- *)
\* How a query of the FHIR server ends: a bundle with entries, a bundle
\* without, a status other than 200, or an exception of requests.get or
\* of the decoding of the answer.
QueryResults == {"ok", "no_entry", "http_error", "raises"}

\* the five sections of the record; the medications are two queries
SectionRuns ==
    [demographics : {"ok", "http_error", "raises"},
     labs : QueryResults,
     MedicationStatement : QueryResults,
     MedicationRequest : QueryResults,
     conditions : QueryResults,
     allergies : QueryResults]

AllOk ==
    [demographics |-> "ok", labs |-> "ok", MedicationStatement |-> "ok",
     MedicationRequest |-> "ok", conditions |-> "ok", allergies |-> "ok"]

\* what a section function hands back: its text, or an exception
SectionText(text) == [raised |-> FALSE, text |-> text]
SectionRaise == [raised |-> TRUE, text |-> None]

\* patient_records_tool.py:14-30
get_patient_demographics(out) ==
    IF out = "ok" THEN SectionText("Patient Name, Gender, DOB")
    ELSE IF out = "http_error" THEN SectionText("Error: Patient not found.")
    ELSE SectionText("Connection failed")

\* a labs query outside any try statement
get_patient_labs_unguarded(out) ==
    IF out = "ok" THEN SectionText("lab results")
    ELSE IF out = "http_error" THEN SectionText("No lab results found.")
    ELSE IF out = "no_entry" THEN SectionText("No recent lab results.")
    ELSE SectionRaise

\* patient_records_tool.py:32-71
get_patient_labs(out) ==
    IF out = "ok" THEN SectionText("lab results")
    ELSE IF out = "http_error" THEN SectionText("No lab results found.")
    ELSE IF out = "no_entry" THEN SectionText("No recent lab results.")
    ELSE SectionText("Error fetching labs")

\* patient_records_tool.py:73-121: the entries of the queries that answer
\* are listed, a query that fails or has no entry is passed over
get_patient_medications(statement, request) ==
    IF statement = "ok" /\ request = "ok"
    THEN SectionText("Current Medications: [MedicationStatement] [MedicationRequest]")
    ELSE IF statement = "ok"
    THEN SectionText("Current Medications: [MedicationStatement]")
    ELSE IF request = "ok"
    THEN SectionText("Current Medications: [MedicationRequest]")
    ELSE SectionText("No active medications found on file.")

\* patient_records_tool.py:123-151
get_patient_conditions(out) ==
    IF out = "ok" THEN SectionText("conditions")
    ELSE IF out = "http_error" THEN SectionText("No conditions found.")
    ELSE IF out = "no_entry" THEN SectionText("No active conditions.")
    ELSE SectionText("Error fetching conditions")

\* patient_records_tool.py:153-183
get_patient_allergies(out) ==
    IF out = "ok" THEN SectionText("allergies")
    ELSE IF out = "http_error" THEN SectionText("No allergies on file.")
    ELSE IF out = "no_entry" THEN SectionText("No known allergies.")
    ELSE SectionText("Error fetching allergies")

\* patient_records_tool.py:189-222: the five texts under their headings
fetch_patient_record(pid, outs) ==
    LET demographics == get_patient_demographics(outs.demographics)
        labs == get_patient_labs(outs.labs)
        meds == get_patient_medications(outs.MedicationStatement, outs.MedicationRequest)
        conditions == get_patient_conditions(outs.conditions)
        allergies == get_patient_allergies(outs.allergies)
    IN  IF \/ demographics.raised \/ labs.raised \/ meds.raised
           \/ conditions.raised \/ allergies.raised
        THEN [raised |-> TRUE, patient_id |-> pid, text |-> <<>>]
        ELSE [raised |-> FALSE, patient_id |-> pid,
              text |-> [DEMOGRAPHICS |-> demographics.text,
                        LABS |-> labs.text,
                        MEDICATIONS |-> meds.text,
                        CONDITIONS |-> conditions.text,
                        ALLERGIES |-> allergies.text]]

(* ------------------------------ retrieve ------------------------------ *)
\* What llm.invoke + json.loads give in query formulation: a JSON object
\* with both keys, a JSON object that lacks them, or an exception.
QueryOutcomes == {"ok", "no_keys", "raise"}

\* What the index answers when it is asked: -1 for an exception, else the
\* number of hits (at most the limit asked for).
IndexOutcomes == {-1, 0, 2, SearchLimit}

Docs(n) == [i \in 1..n |-> i]

\* vector_store.py:68  def search(self, query, limit=3)
VectorStore_search_params == {"query", "limit"}

\* retrieval.py:58-62: the keyword arguments of the call
retrieval_search_kwargs == {"query", "limit", "condition_filter"}

\* The call vector_store.search(**kwargs): a keyword the method does not
\* take is a TypeError before the index is asked.
VectorStore_search(kwargs, idx) ==
    IF ~(kwargs \subseteq VectorStore_search_params) THEN -1 ELSE idx

\* What the search call of retrieval_node can meet: the index is asked,
\* and answers, only when the call binds its arguments.
SearchOutcomes ==
    IF retrieval_search_kwargs \subseteq VectorStore_search_params
    THEN IndexOutcomes ELSE {-1}

\* retrieval.py:40-51
query_generation(q) ==
    IF q = "ok" THEN [condition_filter |-> "Hypertension", search_query |-> "formulated query"]
    ELSE IF q = "no_keys" THEN [condition_filter |-> None, search_query |-> None]
    ELSE [condition_filter |-> None, search_query |-> "treatment guidelines"]

\* retrieval without the handler around the search call
retrieval_node_raising(st, q, idx) ==
    LET params == query_generation(q)
        hits == VectorStore_search(retrieval_search_kwargs, idx)
        current_retries == Get(st, "retrieval_retries", 0) + 1
    IN  IF hits = -1
        THEN Raise({"llm"})
        ELSE Return([retrieved_docs |-> Docs(hits),
                     search_query |-> params.search_query,
                     retrieval_retries |-> current_retries,
                     messages |-> <<Turn("system", "retrieved", <<>>, None)>>],
                    {"llm", "index"})

\* retrieval.py:11-73
retrieval_node(st, q, idx) ==
    LET params == query_generation(q)
        hits == VectorStore_search(retrieval_search_kwargs, idx)
        results == IF hits = -1 THEN <<>> ELSE Docs(hits)
        current_retries == Get(st, "retrieval_retries", 0) + 1
    IN  Return([retrieved_docs |-> results,
                search_query |-> params.search_query,
                retrieval_retries |-> current_retries,
                messages |-> <<Turn("system", "retrieved", <<>>, None)>>],
               IF retrieval_search_kwargs \subseteq VectorStore_search_params
               THEN {"llm", "index"} ELSE {"llm"})

(* ------------------------------- grade -------------------------------- *)
\* What grader_llm.invoke does: a Grade with is_relevant set, or raises
GradeOutcomes == {"relevant", "irrelevant", "raise"}

\* grading without the empty-set shortcut
grader_node_always_asking(st, g) ==
    LET status == IF g = "raise" THEN "relevant" ELSE g
    IN  Return([grading_status |-> status,
                messages |-> <<Turn("system", "grader_verdict", <<>>, None)>>], {"llm"})

\* grading whose failure handler asks for another retrieval
grader_node_failing_irrelevant(st, g) ==
    LET docs == Get(st, "retrieved_docs", <<>>)
    IN  IF docs = <<>>
        THEN Return([grading_status |-> "irrelevant",
                     messages |-> <<Turn("system", "grader_no_docs", <<>>, None)>>], {})
        ELSE LET status == IF g = "raise" THEN "irrelevant" ELSE g
             IN  Return([grading_status |-> status,
                         messages |-> <<Turn("system", "grader_verdict", <<>>, None)>>],
                        {"llm"})

\* grader.py:18-68
grader_node(st, g) ==
    LET docs == Get(st, "retrieved_docs", <<>>)
    IN  IF docs = <<>>
        THEN Return([grading_status |-> "irrelevant",
                     messages |-> <<Turn("system", "grader_no_docs", <<>>, None)>>], {})
        ELSE LET status == IF g = "raise" THEN "relevant" ELSE g
             IN  Return([grading_status |-> status,
                         messages |-> <<Turn("system", "grader_verdict", <<>>, None)>>],
                        {"llm"})

\* graph.py:56-62
check_grade(st) ==
    IF Get(st, "grading_status", None) = "irrelevant"
       /\ Get(st, "retrieval_retries", 0) < RetryLimit
    THEN "retrieve_knowledge"
    ELSE "reason"

(* ------------------------------- reason ------------------------------- *)
\* The tool-call lists the reasoning engine may put on its turn
ToolCallLists ==
    {<<"calculate_cardiovascular_risk">>,
     <<"check_drug_interactions", "summarize_patient_history">>}

\* a tool-call request of the transcript that is not followed by one tool
\* turn per call: the chat completion endpoint rejects such a transcript
Unanswered(messages) ==
    \E i \in DOMAIN messages :
        LET calls == messages[i].tool_calls
        IN  /\ calls # <<>>
            /\ ~ /\ Len(messages) >= i + Len(calls)
                 /\ \A j \in 1..Len(calls) :
                       /\ messages[i + j].role = "tool"
                       /\ messages[i + j].name = calls[j]

\* reasoning.py:12-57: llm.invoke raises (the call failed, or the endpoint
\* refused the transcript), or its response is appended
reasoning_node(st, failed, tool_calls) ==
    IF failed \/ Unanswered(Get(st, "messages", <<>>))
    THEN Raise({"llm"})
    ELSE Return([messages |-> <<Turn("assistant", "ai", tool_calls, None)>>], {"llm"})

\* an exit of reason that ends the cycle whatever the turn carries
check_tool_calls_ending(st) == END

\* graph.py:74-78
check_tool_calls(st) ==
    LET messages == Get(st, "messages", <<>>)
        last_message == messages[Len(messages)]
    IN  IF last_message.tool_calls # <<>> THEN "tools" ELSE END

(* -------------------------------- tools ------------------------------- *)
\* the content of a ToolMessage: what the tool returned, or error text
ToolResults == {"result", "error"}

\* What a call of a tool does: the arguments fail the tool's input schema,
\* the function raises, or it returns text.  check_drug_interactions
\* catches every exception of its requests and the risk calculator makes
\* no external call; summarize_patient_history calls llm.invoke unguarded.
ToolOutcomes(name) ==
    IF name = "summarize_patient_history"
    THEN {"returns", "raises", "invalid_args"}
    ELSE {"returns", "invalid_args"}

\* the outcomes of the calls of one assistant turn, call by call
ToolRuns(calls) ==
    {outs \in [1..Len(calls) -> {"returns", "raises", "invalid_args"}] :
        \A i \in 1..Len(calls) : outs[i] \in ToolOutcomes(calls[i])}

ToolMessage(name, outcome) ==
    Turn("tool", IF outcome = "returns" THEN "result" ELSE "error", <<>>, name)

\* a dispatcher that answers the first request only
tool_node_first_only(st, outs) ==
    LET messages == Get(st, "messages", <<>>)
        calls == messages[Len(messages)].tool_calls
    IN  Return([messages |-> [i \in 1..(IF Len(calls) > 0 THEN 1 ELSE 0) |->
                                 ToolMessage(calls[i], outs[i])]],
               {"tool"})

\* a dispatcher that answers the last request only
tool_node_last_only(st, outs) ==
    LET messages == Get(st, "messages", <<>>)
        calls == messages[Len(messages)].tool_calls
    IN  Return([messages |-> [i \in 1..(IF Len(calls) > 0 THEN 1 ELSE 0) |->
                                 ToolMessage(calls[Len(calls)], outs[Len(calls)])]],
               {"tool"})

\* a dispatcher that lets a tool's exception leave the node
tool_node_reraising(st, outs) ==
    LET messages == Get(st, "messages", <<>>)
        calls == messages[Len(messages)].tool_calls
    IN  IF \E i \in 1..Len(calls) : outs[i] # "returns"
        THEN Raise({"tool"})
        ELSE Return([messages |-> [i \in 1..Len(calls) |-> ToolMessage(calls[i], outs[i])]],
                    {"tool"})

\* tool_executor.py:5-10  ToolNode(tools): every requested call is run and
\* answered by one ToolMessage carrying the tool's name; an exception or a
\* schema violation is caught and becomes the text of that message.
tool_node(st, outs) ==
    LET messages == Get(st, "messages", <<>>)
        calls == messages[Len(messages)].tool_calls
    IN  Return([messages |-> [i \in 1..Len(calls) |-> ToolMessage(calls[i], outs[i])]],
               {"tool"})

(* --------------------------- the state machine ------------------------ *)
VARIABLES
    state,      \* session key -> the checkpointed AgentState of the thread
    pc,         \* session key -> the node that runs next, "idle", END or "error"
    cyc,        \* session key -> what the current cycle has done so far
    hist,       \* session key -> what the session has done since it was created
    started,    \* user messages submitted so far, over all sessions
    rounds      \* turns with tool-call requests emitted so far, over all sessions

vars == <<state, pc, cyc, hist, started, rounds>>

NoTriage == [failed |-> FALSE, patient_id |-> None, missing_info |-> FALSE]

\* what is kept about the execution of the last node, for one step only
NoStep ==
    [q |-> None,                \* retrieve: how query formulation ended
     query |-> None,            \* retrieve: the query the search was called with
     filter |-> None,           \* retrieve: the condition filter it was called with
     search_raised |-> FALSE,   \* retrieve: the search call raised
     idx |-> None,              \* retrieve: what the index answers to the query
     g |-> None,                \* grade: how the classifier call ended, if made
     outs |-> <<>>,             \* tools: how each requested call ended
     sections |-> <<>>,         \* fetch_data: how each query of the record store ended
     record |-> <<>>,           \* fetch_data: what fetch_patient_record gave
     waiting |-> None]          \* fetch_data: the query the node waits on without end

\* the record kept about a cycle, as it is when the user turn is admitted
NewCycle(st) ==
    [path |-> <<>>,                 \* the nodes executed, in order
     before |-> Get(st, "messages", <<>>),  \* the transcript before the user turn
     prior_id |-> Get(st, "patient_id", None),  \* patient_id before the cycle
     triage |-> NoTriage,           \* what the triage classifier reported
     exit_id |-> None,              \* patient_id at the triage exit
     exit_data |-> None,            \* patient_data at the triage exit
     verdict |-> None,              \* grading_status the last grade returned
     verdicts |-> <<>>,             \* grading_status of every grade, in order
     graded_docs |-> 0,             \* passages the last grade was given
     retries_at_grade |-> 0,        \* the counter check_grade read after it
     calls |-> {},                  \* services the last node invoked
     step |-> NoStep]               \* details of the last node's execution

Init ==
    /\ state = [s \in Sessions |-> EmptyState]
    /\ pc = [s \in Sessions |-> "idle"]
    /\ cyc = [s \in Sessions |-> NewCycle(EmptyState)]
    /\ hist = [s \in Sessions |-> [cycles |-> 0, retrieves |-> 0, fetches |-> 0, irrelevant |-> 0, driver |-> None, chat_history |-> <<>>]]
    /\ started = 0
    /\ rounds = 0

InFlight(s) == pc[s] \notin {"idle", END, "error", "out_of_steps", "abandoned"}

\* graph.py:92-94: the state the checkpointer holds for the thread of s
Checkpoint(s) == state[thread_id(s)]

\* A node has returned: its update is merged and checkpointed and the edge
\* out of the node, which reads the merged state, leads to next; an
\* exception leaves the checkpoint as it was and ends the stream call.  When
\* the node was the last step the stream call may take and the edge does not
\* lead to END, the call ends with GraphRecursionError.
Commit(s, node, res, next, c) ==
    /\ IF res.raised
       THEN /\ state' = state
            /\ pc' = [pc EXCEPT ![s] = "error"]
       ELSE /\ state' = [state EXCEPT ![thread_id(s)] = ApplyUpdate(Checkpoint(s), res.upd)]
            /\ pc' = [pc EXCEPT ![s] = IF next # END /\ Len(c.path) + 1 >= RecursionLimit
                                       THEN "out_of_steps" ELSE next]
    /\ cyc' = [cyc EXCEPT ![s] = [c EXCEPT !.path = Append(@, node), !.calls = res.calls]]

to_retrieve == "retrieve_knowledge"
\* an edge out of retrieve that skips the grading
to_grade_skipping == "reason"
to_grade == "grade_documents"
to_reason == "reason"

\* a handler that takes the next message without waiting for the stream
Submit_unguarded(s) ==
    /\ started < MaxCycles
    /\ started' = started + 1
    /\ state' = [state EXCEPT ![thread_id(s)] =
                     ApplyUpdate(Checkpoint(s), [messages |-> <<HumanMessage>>])]
    /\ pc' = [pc EXCEPT ![s] = "triage"]
    /\ cyc' = [cyc EXCEPT ![s] = NewCycle(Checkpoint(s))]
    /\ hist' = [hist EXCEPT ![s].cycles = @ + 1]
    /\ UNCHANGED rounds

\* app.py:104-126: the chat handler streams the graph with the new message
Submit(s) ==
    /\ ~InFlight(s)
    /\ started < MaxCycles
    /\ started' = started + 1
    /\ state' = [state EXCEPT ![thread_id(s)] =
                     ApplyUpdate(Checkpoint(s), [messages |-> <<HumanMessage>>])]
    /\ pc' = [pc EXCEPT ![s] = "triage"]
    /\ cyc' = [cyc EXCEPT ![s] = NewCycle(Checkpoint(s))]
    /\ hist' = [hist EXCEPT ![s].cycles = @ + 1]
    /\ UNCHANGED rounds

Triage(s) ==
    /\ pc[s] = "triage"
    /\ \E out \in TriageOutcomes :
         LET res == triage_node(Checkpoint(s), out)
             st2 == ApplyUpdate(Checkpoint(s), res.upd)
         IN  Commit(s, "triage", res, check_patient_id(st2),
                    [cyc[s] EXCEPT !.step = NoStep,
                                   !.triage = out,
                                   !.exit_id = Get(st2, "patient_id", None),
                                   !.exit_data = Get(st2, "patient_data", None)])
    /\ UNCHANGED <<hist, started, rounds>>

FetchData(s) ==
    /\ pc[s] = "fetch_data"
    /\ \E out \in FetchOutcomes :
         Commit(s, "fetch_data", data_fetcher_node(Checkpoint(s), out), to_retrieve,
                [cyc[s] EXCEPT !.step = NoStep])
    /\ hist' = [hist EXCEPT ![s].fetches = @ + 1]
    /\ UNCHANGED <<started, rounds>>

Retrieve(s) ==
    /\ pc[s] = "retrieve_knowledge"
    /\ \E q \in QueryOutcomes, idx \in SearchOutcomes :
         Commit(s, "retrieve_knowledge", retrieval_node(Checkpoint(s), q, idx), to_grade,
                [cyc[s] EXCEPT !.step =
                    [NoStep EXCEPT !.q = q,
                                   !.query = query_generation(q).search_query,
                                   !.filter = query_generation(q).condition_filter,
                                   !.search_raised =
                                       (VectorStore_search(retrieval_search_kwargs, idx) = -1),
                                   !.idx = idx]])
    /\ hist' = [hist EXCEPT ![s].retrieves = @ + 1]
    /\ UNCHANGED <<started, rounds>>

Grade(s) ==
    /\ pc[s] = "grade_documents"
    /\ \E g \in GradeOutcomes :
         LET res == grader_node(Checkpoint(s), g)
             st2 == ApplyUpdate(Checkpoint(s), res.upd)
         IN  /\ Commit(s, "grade_documents", res, check_grade(st2),
                    [cyc[s] EXCEPT !.step = [NoStep EXCEPT !.g = IF "llm" \in res.calls
                                                                 THEN g ELSE None],
                                   !.verdict = res.upd.grading_status,
                                   !.verdicts = Append(@, res.upd.grading_status),
                                   !.graded_docs = Len(Get(Checkpoint(s), "retrieved_docs", <<>>)),
                                   !.retries_at_grade = Get(st2, "retrieval_retries", 0)])
            /\ hist' = [hist EXCEPT ![s].irrelevant =
                            IF res.upd.grading_status = "irrelevant" THEN @ + 1 ELSE @]
    /\ UNCHANGED <<started, rounds>>

ReasonStep(s, failed, tool_calls) ==
    /\ pc[s] = "reason"
    /\ LET res == reasoning_node(Checkpoint(s), failed, tool_calls)
       IN  Commit(s, "reason", res,
                  check_tool_calls(ApplyUpdate(Checkpoint(s), res.upd)),
                  [cyc[s] EXCEPT !.step = NoStep])
    /\ rounds' = IF tool_calls # <<>> THEN rounds + 1 ELSE rounds
    /\ UNCHANGED <<hist, started>>

Reason(s) ==
    \/ \E failed \in BOOLEAN : ReasonStep(s, failed, <<>>)
    \/ /\ rounds < MaxToolRounds
       /\ \E tool_calls \in ToolCallLists : ReasonStep(s, FALSE, tool_calls)

Tools(s) ==
    /\ pc[s] = "tools"
    /\ LET messages == Get(Checkpoint(s), "messages", <<>>)
           calls == messages[Len(messages)].tool_calls
       IN  \E outs \in ToolRuns(calls) :
             Commit(s, "tools", tool_node(Checkpoint(s), outs), to_reason,
                    [cyc[s] EXCEPT !.step = [NoStep EXCEPT !.outs = outs]])
    /\ UNCHANGED <<hist, started, rounds>>

\* One session at work: the cycles of one thread_id, one after the other.
Next ==
    \/ Submit(MainSession)
    \/ Triage(MainSession)
    \/ FetchData(MainSession)
    \/ Retrieve(MainSession)
    \/ Grade(MainSession)
    \/ Reason(MainSession)
    \/ Tools(MainSession)

Spec == Init /\ [][Next]_vars

\* the turns of all transcripts together
RECURSIVE TurnsIn(_)
TurnsIn(threads) ==
    IF threads = {} THEN 0
    ELSE LET k == CHOOSE x \in threads : TRUE
         IN  Len(Get(state[k], "messages", <<>>)) + TurnsIn(threads \ {k})

\* steps are taken within the turn budget
Working == TurnsIn(Sessions) < MaxTurns

\* Several sessions at work, their node steps interleaved.
NextSessions ==
    \E s \in Sessions :
        \/ Working /\ Submit(s)
        \/ Working /\ Triage(s)
        \/ Working /\ FetchData(s)
        \/ Working /\ Retrieve(s)
        \/ Working /\ Grade(s)
        \/ Working /\ Reason(s)
        \/ Working /\ Tools(s)

SpecSessions == Init /\ [][NextSessions]_vars

\* The states grade can be entered in: retrieve has stored the passages a
\* search returned (none up to the limit asked for) after triage and
\* fetch_data resolved the patient.
GraderInputs ==
    {[patient_id |-> pid,
      patient_data |-> PatientRecordText(pid),
      retrieved_docs |-> Docs(n),
      messages |-> <<HumanMessage,
                     Turn("system", "triage_analysis", <<>>, None),
                     Turn("system", "fetch_success", <<>>, None),
                     Turn("system", "retrieved", <<>>, None)>>] :
        pid \in PatientIds, n \in 0..SearchLimit}

InitGrader ==
    /\ \E st \in GraderInputs :
          state = [s \in Sessions |-> IF s = MainSession THEN st ELSE EmptyState]
    /\ pc = [s \in Sessions |-> IF s = MainSession THEN "grade_documents" ELSE "idle"]
    /\ cyc = [s \in Sessions |->
                IF s = MainSession
                THEN [NewCycle(EmptyState) EXCEPT
                         !.path = <<"triage", "fetch_data", "retrieve_knowledge">>]
                ELSE NewCycle(EmptyState)]
    /\ hist = [s \in Sessions |->
                IF s = MainSession
                THEN [cycles |-> 1, retrieves |-> 1, fetches |-> 1, irrelevant |-> 0, driver |-> None, chat_history |-> <<>>]
                ELSE [cycles |-> 0, retrieves |-> 0, fetches |-> 0, irrelevant |-> 0, driver |-> None, chat_history |-> <<>>]]
    /\ started = 1
    /\ rounds = 0

\* grade applied to each of its inputs, and the cycle carried on from there
NextGrader ==
    \/ Grade(MainSession)
    \/ Reason(MainSession)
    \/ Tools(MainSession)

SpecGrader == InitGrader /\ [][NextGrader]_vars


\* The states fetch_data is entered in on the first cycle of a session:
\* triage has resolved a patient id and no record is cached.
InitFetch ==
    /\ \E pid \in PatientIds :
          state = [s \in Sessions |->
                     IF s = MainSession
                     THEN [patient_id |-> pid,
                           messages |-> <<HumanMessage,
                                          Turn("system", "triage_analysis", <<>>, None)>>]
                     ELSE EmptyState]
    /\ pc = [s \in Sessions |-> IF s = MainSession THEN "fetch_data" ELSE "idle"]
    /\ cyc = [s \in Sessions |->
                IF s = MainSession
                THEN [NewCycle(EmptyState) EXCEPT !.path = <<"triage">>]
                ELSE NewCycle(EmptyState)]
    /\ hist = [s \in Sessions |->
                [cycles |-> IF s = MainSession THEN 1 ELSE 0,
                 retrieves |-> 0, fetches |-> 0, irrelevant |-> 0, driver |-> None, chat_history |-> <<>>]]
    /\ started = 1
    /\ rounds = 0

\* patient_records_tool.py:129, 159: the queries sent with timeout=5; the
\* requests.get of lines 20, 38 and 88 has no timeout argument
QueriesWithTimeout == {"conditions", "allergies"}

\* data_fetcher.py:17-27 with the tool it invokes: fetch_patient_record
\* queries the record store section by section.  A query the store never
\* answers raises requests.Timeout when it was sent with a timeout (one of
\* the results "raises") and keeps the node waiting when it was not.
FetchPatientRecord(s) ==
    /\ pc[s] = "fetch_data"
    /\ \/ /\ \E outs \in SectionRuns :
               LET record == fetch_patient_record(Get(Checkpoint(s), "patient_id", None), outs)
               IN  Commit(s, "fetch_data",
                          data_fetcher_node(Checkpoint(s), IF record.raised THEN "raise" ELSE "ok"),
                          to_retrieve,
                          [cyc[s] EXCEPT !.step = [NoStep EXCEPT !.sections = outs,
                                                                 !.record = record]])
          /\ hist' = [hist EXCEPT ![s].fetches = @ + 1]
       \/ /\ \E query \in DOMAIN AllOk \ QueriesWithTimeout :
               cyc' = [cyc EXCEPT ![s].step = [NoStep EXCEPT !.waiting = query]]
          /\ pc' = [pc EXCEPT ![s] = "blocked"]
          /\ UNCHANGED <<state, hist>>
    /\ UNCHANGED <<started, rounds>>

\* fetch_patient_record applied to every combination of query results
NextFetch == FetchPatientRecord(MainSession)

SpecFetch == InitFetch /\ [][NextFetch]_vars


\* The first message of a session has been admitted.
InitLoop ==
    /\ state = [s \in Sessions |->
                  IF s = MainSession
                  THEN ApplyUpdate(EmptyState, [messages |-> <<HumanMessage>>])
                  ELSE EmptyState]
    /\ pc = [s \in Sessions |-> IF s = MainSession THEN "triage" ELSE "idle"]
    /\ cyc = [s \in Sessions |-> NewCycle(EmptyState)]
    /\ hist = [s \in Sessions |->
                [cycles |-> IF s = MainSession THEN 1 ELSE 0,
                 retrieves |-> 0, fetches |-> 0, irrelevant |-> 0, driver |-> None, chat_history |-> <<>>]]
    /\ started = 1
    /\ rounds = 0

\* A reasoning engine whose calls return and that asks for the risk
\* calculator for as many rounds as it likes before it answers.
ReasonLoop(s) ==
    \/ ReasonStep(s, FALSE, <<>>)
    \/ ReasonStep(s, FALSE, <<"calculate_cardiovascular_risk">>)

\* One cycle, run by agent_graph.stream until the graph stops it.
NextLoop ==
    \/ Triage(MainSession)
    \/ FetchData(MainSession)
    \/ Retrieve(MainSession)
    \/ Grade(MainSession)
    \/ ReasonLoop(MainSession)
    \/ Tools(MainSession)

\* app.py:126: the handler iterates the stream to its end, so a node that
\* can run does run
SpecLoop == InitLoop /\ [][NextLoop]_vars /\ WF_vars(NextLoop)


\* app.py:115-126: the script run that iterates the stream is stopped
\* between two events (the browser reruns or leaves): the nodes that have
\* returned are checkpointed, the rest of the cycle never runs.
Abandon(s) ==
    /\ InFlight(s)
    /\ cyc[s].path # <<>>
    /\ pc' = [pc EXCEPT ![s] = "abandoned"]
    /\ UNCHANGED <<state, cyc, hist, started, rounds>>

\* One session at work whose cycles may be abandoned at a node boundary.
NextAbandon ==
    \/ Submit(MainSession)
    \/ Triage(MainSession)
    \/ FetchData(MainSession)
    \/ Retrieve(MainSession)
    \/ Grade(MainSession)
    \/ Reason(MainSession)
    \/ Tools(MainSession)
    \/ Abandon(MainSession)

SpecAbandon == Init /\ [][NextAbandon]_vars


(* ------------------------- the command line --------------------------- *)
\* main.py:37, 41 call the compiled graph without a config, although
\* graph.py:91-94 compiles it with a checkpointer.  The installed langgraph
\* (no version is pinned) decides what such a call does: it is refused with
\* an exception before the first node, or it runs the graph on its input.
DriverCallOutcomes == {"refused", "runs"}

\* main.py:29-32
initial_state(chat_history) ==
    ApplyUpdate(EmptyState, [messages |-> Append(chat_history, HumanMessage),
                             patient_id |-> None])

\* a driver call that runs: the graph starts at triage on initial_state
DriverCall(s, phase) ==
    /\ state' = [state EXCEPT ![thread_id(s)] = initial_state(hist[s].chat_history)]
    /\ pc' = [pc EXCEPT ![s] = "triage"]
    /\ cyc' = [cyc EXCEPT ![s] = NewCycle([messages |-> hist[s].chat_history])]
    /\ hist' = [hist EXCEPT ![s].cycles = @ + 1, ![s].driver = phase]

\* main.py:24-37: a message is read and agent_graph.stream is called
MainInput(s) ==
    /\ hist[s].driver = "input"
    /\ started < MaxCycles
    /\ started' = started + 1
    /\ \E call \in DriverCallOutcomes :
         IF call = "refused"
         THEN UNCHANGED <<state, pc, cyc, hist>>
         ELSE DriverCall(s, "stream")
    /\ UNCHANGED rounds

\* main.py:41: the stream has ended and agent_graph.invoke is called with
\* the same initial_state
MainInvoke(s) ==
    /\ hist[s].driver = "stream"
    /\ pc[s] = END
    /\ DriverCall(s, "invoke")
    /\ UNCHANGED <<started, rounds>>

\* main.py:44-49: the last turn of invoke's result is shown and the user
\* turn and that turn are appended to chat_history
MainRespond(s) ==
    /\ hist[s].driver = "invoke"
    /\ pc[s] = END
    /\ LET messages == Get(Checkpoint(s), "messages", <<>>)
       IN  hist' = [hist EXCEPT ![s].driver = "input",
                                ![s].chat_history =
                                    @ \o <<HumanMessage, messages[Len(messages)]>>]
    /\ pc' = [pc EXCEPT ![s] = "idle"]
    /\ UNCHANGED <<state, cyc, started, rounds>>

\* main.py:51-53: an exception of either call is printed and the loop
\* goes on with chat_history as it was
MainExcept(s) ==
    /\ hist[s].driver \in {"stream", "invoke"}
    /\ pc[s] \in {"error", "out_of_steps"}
    /\ hist' = [hist EXCEPT ![s].driver = "input"]
    /\ pc' = [pc EXCEPT ![s] = "idle"]
    /\ UNCHANGED <<state, cyc, started, rounds>>

\* main.py:21-24: the loop waits for the first message
InitMain ==
    /\ state = [s \in Sessions |-> EmptyState]
    /\ pc = [s \in Sessions |-> "idle"]
    /\ cyc = [s \in Sessions |-> NewCycle(EmptyState)]
    /\ hist = [s \in Sessions |->
                [cycles |-> 0, retrieves |-> 0, fetches |-> 0, irrelevant |-> 0,
                 driver |-> IF s = MainSession THEN "input" ELSE None,
                 chat_history |-> <<>>]]
    /\ started = 0
    /\ rounds = 0

\* The command-line process: the loop of main and the nodes its calls run.
NextMain ==
    \/ MainInput(MainSession)
    \/ MainInvoke(MainSession)
    \/ MainRespond(MainSession)
    \/ MainExcept(MainSession)
    \/ Triage(MainSession)
    \/ FetchData(MainSession)
    \/ Retrieve(MainSession)
    \/ Grade(MainSession)
    \/ Reason(MainSession)
    \/ Tools(MainSession)

SpecMain == InitMain /\ [][NextMain]_vars


(* ------------------------- reading the state -------------------------- *)
Range(f) == {f[i] : i \in DOMAIN f}
Count(seq, x) == Cardinality({i \in DOMAIN seq : seq[i] = x})

transcript(s) == Get(Checkpoint(s), "messages", <<>>)
patient_id(s) == Get(Checkpoint(s), "patient_id", None)
patient_data(s) == Get(Checkpoint(s), "patient_data", None)
\* the counter as retrieval_node and check_grade read it
retrieval_retries(s) == Get(Checkpoint(s), "retrieval_retries", 0)

\* node has just returned in the cycle of s and nothing has run since
JustRan(s, node) ==
    /\ cyc[s].path # <<>>
    /\ cyc[s].path[Len(cyc[s].path)] = node
    /\ pc[s] # "error"

\* the turns the cycle of s has appended after the user turn
Gained(s) ==
    SubSeq(transcript(s), Len(cyc[s].before) + 2, Len(transcript(s)))

(* ------------------------------ claims -------------------------------- *)

\* C1: in every reachable state of every session, after any number of
\* cycles, the retry counter (what state.get("retrieval_retries", 0)
\* yields) is at most 3.
C1_RetryCountAtMostLimit ==
    \A s \in Sessions : retrieval_retries(s) <= RetryLimit

\* C1 witness: a later cycle of a session has run retrieve again and ended.
C1_Witness ==
    \E s \in Sessions :
        /\ hist[s].cycles >= 2
        /\ hist[s].retrieves >= 2
        /\ "retrieve_knowledge" \in Range(cyc[s].path)
        /\ pc[s] = END

\* C2 (as claimed): after every execution of grade the next node is
\* retrieve exactly when the verdict just produced is irrelevant and the
\* retry counter is below 3, and reason otherwise.
C2_GradeExitFollowsVerdict ==
    \A s \in Sessions :
        JustRan(s, "grade_documents") =>
            /\ pc[s] \in {"retrieve_knowledge", "reason"}
            /\ pc[s] = "retrieve_knowledge" <=>
                   (cyc[s].verdict = "irrelevant" /\ cyc[s].retries_at_grade < RetryLimit)

\* C3: in a cycle retrieve executes at most 3 times, and the grading that
\* follows the third retrieval is left towards reason whatever the verdict.
C3_RetrieveBoundedPerCycle ==
    \A s \in Sessions :
        /\ Count(cyc[s].path, "retrieve_knowledge") <= RetryLimit
        /\ (Count(cyc[s].path, "retrieve_knowledge") = RetryLimit
              => pc[s] # "retrieve_knowledge")
        /\ (JustRan(s, "grade_documents") /\ pc[s] # "retrieve_knowledge"
              => pc[s] = "reason")

\* C3 witness: a grading returned irrelevant and the cycle went on to reason.
C3_Witness ==
    \E s \in Sessions :
        /\ JustRan(s, "grade_documents")
        /\ cyc[s].verdict = "irrelevant"
        /\ pc[s] = "reason"

\* C4: whenever grade executes on an empty passage set, the verdict it
\* returns is irrelevant and the classifier is not invoked in that step.
C4_EmptySetGradedIrrelevant ==
    \A s \in Sessions :
        (JustRan(s, "grade_documents") /\ cyc[s].graded_docs = 0) =>
            /\ cyc[s].verdict = "irrelevant"
            /\ "llm" \notin cyc[s].calls

\* C4 witness: grade has just run on an empty passage set.
C4_Witness ==
    \E s \in Sessions :
        /\ JustRan(s, "grade_documents")
        /\ cyc[s].graded_docs = 0
        /\ Get(Checkpoint(s), "retrieved_docs", <<1>>) = <<>>

\* C5: fetch_data and retrieve are about to run only with a patient_id in
\* the state, and a cycle whose triage returns with no patient_id ends
\* there: triage is the only node it executes.
C5_PatientIdRequired ==
    \A s \in Sessions :
        /\ pc[s] \in {"fetch_data", "retrieve_knowledge"} => Truthy(patient_id(s))
        /\ (Range(cyc[s].path) \cap {"fetch_data", "retrieve_knowledge"} # {})
              => Truthy(patient_id(s))
        /\ (cyc[s].path # <<>> /\ ~cyc[s].triage.failed /\ ~Truthy(cyc[s].exit_id))
              => (cyc[s].path = <<"triage">> /\ pc[s] = END)

\* C5 witness: triage returned without any patient id and the cycle ended.
C5_Witness ==
    \E s \in Sessions :
        /\ cyc[s].path = <<"triage">>
        /\ ~cyc[s].triage.failed
        /\ ~Truthy(cyc[s].exit_id)
        /\ pc[s] = END

\* C6 (as claimed): a cycle that ends at triage because no patient id is
\* known gains exactly one turn, a request for a patient identifier, and
\* that turn is the last of the final transcript.
C6_ClarificationTurnAtTriageEnd ==
    \A s \in Sessions :
        (pc[s] = END /\ cyc[s].path = <<"triage">>) =>
            /\ Len(Gained(s)) = 1
            /\ Gained(s)[1].kind = "need_patient_id"
            /\ transcript(s)[Len(transcript(s))].kind = "need_patient_id"

\* C7 (as claimed): whenever triage reports missing_info, even with a
\* patient id resolved, fetch_data does not execute in that cycle.
C7_NoFetchWhenClarificationNeeded ==
    \A s \in Sessions :
        (cyc[s].path # <<>> /\ cyc[s].triage.missing_info) =>
            /\ pc[s] # "fetch_data"
            /\ "fetch_data" \notin Range(cyc[s].path)

\* C8: once patient_id is non-null in a session, no step makes it null.
C8_PatientIdNeverCleared ==
    [][\A s \in Sessions : Truthy(patient_id(s)) => Truthy(patient_id(s))']_vars

\* C8 witness: triage resolved no identifier in a session that knew one.
C8_Witness ==
    \E s \in Sessions :
        /\ hist[s].cycles >= 2
        /\ JustRan(s, "triage")
        /\ cyc[s].triage.patient_id = None
        /\ Truthy(patient_id(s))

\* C9: the transcript is append-only: before every step it is a prefix of
\* the transcript after the step.
C9_TranscriptAppendOnly ==
    [][\A s \in Sessions : IsPrefix(transcript(s), transcript(s)')]_vars

\* C9 witness: a second cycle has appended turns after those of the first.
C9_Witness ==
    \E s \in Sessions :
        /\ hist[s].cycles >= 2
        /\ Len(cyc[s].before) >= 2
        /\ Len(transcript(s)) >= Len(cyc[s].before) + 3

LastNode(s) ==
    IF cyc[s].path = <<>> THEN None ELSE cyc[s].path[Len(cyc[s].path)]

\* C11 (as claimed): when triage exits with a patient id newly known in
\* this cycle (resolved from the message, different from or absent in the
\* prior state), or with a known id and no record cached, the next node is
\* fetch_data.
C11_NewOrUncachedIdFetches ==
    \A s \in Sessions :
        (/\ JustRan(s, "triage")
         /\ \/ /\ Truthy(cyc[s].triage.patient_id)
               /\ cyc[s].triage.patient_id # cyc[s].prior_id
            \/ /\ Truthy(cyc[s].exit_id)
               /\ ~Truthy(cyc[s].exit_data))
        => pc[s] = "fetch_data"

C13_OneToolTurnPerRequest ==
    [][\A s \in Sessions :
         (pc[s] = "tools" /\ pc[s]' # "tools") =>
            LET calls == transcript(s)[Len(transcript(s))].tool_calls
                n == Len(transcript(s))
            IN  /\ pc[s]' = "reason"
                /\ IsPrefix(transcript(s), transcript(s)')
                /\ Len(transcript(s)') = n + Len(calls)
                /\ \A i \in 1..Len(calls) :
                      /\ transcript(s)'[n + i].role = "tool"
                      /\ transcript(s)'[n + i].name = calls[i]]_vars

\* C13 witness: tools has answered a turn that carried two requests.
C13_Witness ==
    \E s \in Sessions :
        /\ JustRan(s, "tools")
        /\ Len(cyc[s].step.outs) = 2
        /\ Len(transcript(s)) >= 3
        /\ transcript(s)[Len(transcript(s)) - 2].tool_calls =
              <<"check_drug_interactions", "summarize_patient_history">>
        /\ pc[s] = "reason"

\* C14: when a requested call raises or its arguments fail the schema,
\* the turn that answers it is a tool turn holding error text, tools
\* returns, and reason runs next.
C14_ToolFailureBecomesErrorTurn ==
    \A s \in Sessions :
        LastNode(s) = "tools" =>
            LET outs == cyc[s].step.outs
                n == Len(transcript(s)) - Len(outs)
            IN  /\ pc[s] = "reason"
                /\ \A i \in 1..Len(outs) :
                      outs[i] # "returns" =>
                          /\ transcript(s)[n + i].role = "tool"
                          /\ transcript(s)[n + i].kind = "error"

\* C14 witness: in one run of tools a call failed its schema and another
\* raised.
C14_Witness ==
    \E s \in Sessions :
        /\ LastNode(s) = "tools"
        /\ cyc[s].step.outs = <<"invalid_args", "raises">>
        /\ pc[s] = "reason"

\* C15 (as claimed): when the triage classifier raises or returns
\* malformed output, triage completes without propagating the error, and
\* the cycle continues with the routing out of triage.
C15_TriageFailureContained ==
    \A s \in Sessions :
        (LastNode(s) = "triage" /\ cyc[s].triage.failed) =>
            /\ pc[s] \in {"fetch_data", "retrieve_knowledge", END}
            /\ Len(Gained(s)) = 1

\* C16: when the relevance classifier fails on a non-empty passage set,
\* the verdict is relevant and the next node is reason, not retrieve.
C16_GraderFailureIsRelevant ==
    \A s \in Sessions :
        (/\ LastNode(s) = "grade_documents"
         /\ cyc[s].step.g = "raise"
         /\ cyc[s].graded_docs > 0)
        => /\ cyc[s].verdict = "relevant"
           /\ pc[s] = "reason"

\* C16 witness: the classifier failed on a set of passages of full size.
C16_Witness ==
    \E s \in Sessions :
        /\ LastNode(s) = "grade_documents"
        /\ cyc[s].step.g = "raise"
        /\ cyc[s].graded_docs = SearchLimit
        /\ Len(Get(Checkpoint(s), "retrieved_docs", <<>>)) = SearchLimit
        /\ pc[s] = "reason"

\* C17: when query formulation fails, the search is called with the fixed
\* generic query and no condition filter; when the search call fails, the
\* passage set stored is empty; either way retrieve returns and grade
\* runs next.
C17_RetrieveFailuresContained ==
    \A s \in Sessions :
        LastNode(s) = "retrieve_knowledge" =>
            /\ pc[s] = "grade_documents"
            /\ cyc[s].step.q = "raise" =>
                  /\ cyc[s].step.query = "treatment guidelines"
                  /\ cyc[s].step.filter = None
            /\ cyc[s].step.search_raised =>
                  Get(Checkpoint(s), "retrieved_docs", None) = <<>>

\* C17 witness: query formulation failed and so did the search call.
C17_Witness ==
    \E s \in Sessions :
        /\ LastNode(s) = "retrieve_knowledge"
        /\ cyc[s].step.q = "raise"
        /\ cyc[s].step.search_raised
        /\ pc[s] = "grade_documents"

\* C18 (as claimed): whatever external call fails, no node of a started
\* cycle lets an exception out; in particular reason returns when its
\* classifier call fails, and a cycle that has ended has an answer or a
\* request for clarification as its last turn.
C18_NoCycleAborts ==
    \A s \in Sessions :
        /\ pc[s] # "error"
        /\ LastNode(s) = "reason" => pc[s] \in {"tools", END}
        /\ pc[s] = END => transcript(s)[Len(transcript(s))].role \in {"assistant", "system"}

\* C19: sessions are isolated: under any interleaving, a step of the cycle
\* of one session key leaves every field of the AgentState stored for
\* every other key as it was.
C19_SessionsIsolated ==
    [][\A a, b \in Sessions :
         (a # b /\ (pc[a]' # pc[a] \/ cyc[a]' # cyc[a])) =>
             Checkpoint(b)' = Checkpoint(b)]_vars

\* C19 witness: two sessions are in the middle of their cycles, each past
\* its triage, with different patients in their states.
C19_Witness ==
    \E a, b \in Sessions :
        /\ a # b
        /\ InFlight(a) /\ InFlight(b)
        /\ cyc[a].path # <<>> /\ cyc[b].path # <<>>
        /\ Truthy(patient_id(a)) /\ Truthy(patient_id(b))
        /\ patient_id(a) # patient_id(b)
        /\ transcript(a) # transcript(b)

\* C20: a user message is admitted for a session key only when no cycle
\* for that key is in flight: the cycles of one key follow one another.
C20_SingleFlightPerSession ==
    [][\A s \in Sessions :
         hist[s].cycles' > hist[s].cycles =>
             \A r \in Sessions : thread_id(r) = thread_id(s) => ~InFlight(r)]_vars

\* C20 witness: a session is in its second cycle while another session is
\* in the middle of one.
C20_Witness ==
    \E s, r \in Sessions :
        /\ s # r
        /\ hist[s].cycles >= 2
        /\ InFlight(s) /\ cyc[s].path # <<>>
        /\ InFlight(r)

\* C21 (as claimed): in the first cycle of a fresh session, a retrieval
\* graded irrelevant is followed by another retrieval, twice, and when the
\* third is graded relevant there have been exactly 3 retrievals, the
\* counter reads 2 and the next node is reason.
C21_RelevantOnThirdRetrieval ==
    \A s \in Sessions :
        (hist[s].cycles = 1 /\ JustRan(s, "grade_documents")) =>
            /\ cyc[s].verdicts \in {<<"irrelevant">>, <<"irrelevant", "irrelevant">>}
                  => pc[s] = "retrieve_knowledge"
            /\ cyc[s].verdicts = <<"irrelevant", "irrelevant", "relevant">>
                  => /\ Count(cyc[s].path, "retrieve_knowledge") = 3
                     /\ cyc[s].retries_at_grade = 2
                     /\ pc[s] = "reason"

\* C22 (as claimed): the graph sets no bound on the round trips between
\* reason and tools: every turn of reason that carries a request is
\* followed by tools, however many came before, and no cycle is cut off.
C22_NoCapOnRoundTrips ==
    \A s \in Sessions :
        /\ pc[s] # "out_of_steps"
        /\ (JustRan(s, "reason") /\ transcript(s)[Len(transcript(s))].tool_calls # <<>>)
              => pc[s] = "tools"


Headings == {"DEMOGRAPHICS", "LABS", "MEDICATIONS", "CONDITIONS", "ALLERGIES"}

\* the queries behind a heading
QueriesOf(heading) ==
    IF heading = "DEMOGRAPHICS" THEN {"demographics"}
    ELSE IF heading = "LABS" THEN {"labs"}
    ELSE IF heading = "MEDICATIONS" THEN {"MedicationStatement", "MedicationRequest"}
    ELSE IF heading = "CONDITIONS" THEN {"conditions"}
    ELSE {"allergies"}

\* the texts that stand for a section whose queries failed
Placeholders ==
    {"Error: Patient not found.", "Connection failed",
     "No lab results found.", "Error fetching labs",
     "No active medications found on file.",
     "No conditions found.", "Error fetching conditions",
     "No allergies on file.", "Error fetching allergies"}

\* the results of the queries behind heading kept, every other query answering
OnlyQueriesOf(heading, outs) ==
    [q \in DOMAIN outs |-> IF q \in QueriesOf(heading) THEN outs[q] ELSE AllOk[q]]

\* C23: for every combination of failing section queries the fetch returns
\* a record with all five sections: a section whose queries all failed
\* holds a placeholder, every section is what it is when the queries of the
\* other sections answer, and the fetch does not raise.
C23_FetchDegradesPerSection ==
    \A s \in Sessions :
        (LastNode(s) = "fetch_data" /\ cyc[s].step.sections # <<>>) =>
            LET outs == cyc[s].step.sections
                record == cyc[s].step.record
            IN  /\ ~record.raised
                /\ pc[s] = "retrieve_knowledge"
                /\ DOMAIN record.text = Headings
                /\ \A h \in Headings :
                      /\ (\A q \in QueriesOf(h) : outs[q] \in {"http_error", "raises"})
                            => record.text[h] \in Placeholders
                      /\ record.text[h] =
                            fetch_patient_record(record.patient_id,
                                                 OnlyQueriesOf(h, outs)).text[h]

\* C23 witness: the queries of every section but the conditions failed,
\* some by an exception, and the conditions are in the record.
C23_Witness ==
    \E s \in Sessions :
        /\ LastNode(s) = "fetch_data"
        /\ cyc[s].step.sections =
              [demographics |-> "raises", labs |-> "raises",
               MedicationStatement |-> "http_error", MedicationRequest |-> "raises",
               conditions |-> "ok", allergies |-> "http_error"]
        /\ cyc[s].step.record.text.CONDITIONS = "conditions"
        /\ cyc[s].step.record.text.LABS = "Error fetching labs"
        /\ patient_data(s) # None


\* C24 (as claimed): the retry counter of a session equals the number of
\* retrieve executions of the session so far, over all its cycles.
C24_CounterCountsRetrievals ==
    \A s \in Sessions : retrieval_retries(s) = hist[s].retrieves

\* C25 (as claimed): the retry counter of a session equals the number of
\* irrelevant verdicts grade has produced since the session was created.
C25_CounterCountsIrrelevantVerdicts ==
    \A s \in Sessions : retrieval_retries(s) = hist[s].irrelevant

\* C26 (as claimed): the value a node writes to triage_intent,
\* search_query, grading_status or retrieval_retries is in the session's
\* state when the node has returned, where the next reader finds it.
C26_ControlValuesStored ==
    \A s \in Sessions :
        /\ JustRan(s, "triage") =>
              Get(Checkpoint(s), "triage_intent", None) = "intent"
        /\ JustRan(s, "retrieve_knowledge") =>
              /\ Get(Checkpoint(s), "search_query", None) = cyc[s].step.query
              /\ Get(Checkpoint(s), "retrieval_retries", 0) >= 1
        /\ JustRan(s, "grade_documents") =>
              Get(Checkpoint(s), "grading_status", None) = cyc[s].verdict

\* C27 (as claimed): after retrieve the passages stored are those the
\* index returned for the query and the filter, at most 4 of them, and
\* none when the index raised.
C27_PassagesAreIndexResult ==
    \A s \in Sessions :
        LastNode(s) = "retrieve_knowledge" =>
            LET docs == Get(Checkpoint(s), "retrieved_docs", None)
            IN  /\ "index" \in cyc[s].calls
                /\ docs = IF cyc[s].step.idx = -1 THEN <<>> ELSE Docs(cyc[s].step.idx)
                /\ Len(docs) <= SearchLimit

\* C28 (as claimed): after retrieve the stored search_query is a string,
\* and when the formulation output raised or lacks the search_query key
\* the query is the generic one, with no condition filter.
C28_SearchQueryNeverNull ==
    \A s \in Sessions :
        LastNode(s) = "retrieve_knowledge" =>
            /\ Truthy(Get(Checkpoint(s), "search_query", None))
            /\ cyc[s].step.q \in {"no_keys", "raise"} =>
                  /\ cyc[s].step.query = "treatment guidelines"
                  /\ cyc[s].step.filter = None

\* the transition table: the nodes that may follow a node
Successors(node) ==
    IF node = "triage" THEN {END, "fetch_data", "retrieve_knowledge"}
    ELSE IF node = "fetch_data" THEN {"retrieve_knowledge"}
    ELSE IF node = "retrieve_knowledge" THEN {"grade_documents"}
    ELSE IF node = "grade_documents" THEN {"retrieve_knowledge", "reason"}
    ELSE IF node = "reason" THEN {"tools", END}
    ELSE IF node = "tools" THEN {"reason"}
    ELSE {}

\* C29: the nodes a cycle has executed, in order, form a path of the
\* transition table that starts at triage, and the one node that runs next
\* is a successor of the last.
C29_PathFollowsTransitionTable ==
    \A s \in Sessions :
        LET path == cyc[s].path
        IN  /\ path # <<>> => path[1] = "triage"
            /\ \A i \in 1..(Len(path) - 1) : path[i + 1] \in Successors(path[i])
            /\ pc[s] = "triage" <=> (path = <<>> /\ hist[s].cycles > 0)
            /\ (path # <<>> /\ pc[s] \notin {"error", "out_of_steps"}) => pc[s] \in Successors(path[Len(path)])

\* C29 witness: a cycle took every edge from triage through fetch_data,
\* retrieve, grade, reason and tools back to reason, and ended.
C29_Witness ==
    \E s \in Sessions :
        /\ cyc[s].path = <<"triage", "fetch_data", "retrieve_knowledge",
                           "grade_documents", "reason", "tools", "reason">>
        /\ pc[s] = END

\* C30 (as claimed): when every external call returns and the reasoning
\* engine stops asking for tools after finitely many rounds, a cycle that
\* has started reaches end ("error" is a call that did not return).
C30_StartedCycleReachesEnd ==
    \A s \in Sessions : (pc[s] = "triage") ~> (pc[s] \in {END, "error"})

\* the values a node writes to each field of the state
Written(key) ==
    IF key = "patient_id" THEN PatientIds \cup {None}
    ELSE IF key = "patient_data"
         THEN {PatientRecordText(pid) : pid \in PatientIds} \cup {"Error fetching data"}
    ELSE IF key = "retrieved_docs" THEN {Docs(n) : n \in 0..SearchLimit}
    ELSE {}

\* C31 (as claimed): a cycle abandoned at a node boundary leaves the
\* session state intact: the persisted transcript extends the transcript
\* from before the cycle, every persisted field holds a value some node
\* wrote, and the cycle the next user message starts can run to end: the
\* transcript it brings to reason is one the reasoning engine accepts.
C31_AbandonedCycleLeavesSessionUsable ==
    \A s \in Sessions :
        /\ pc[s] = "abandoned" =>
              /\ IsPrefix(Append(cyc[s].before, HumanMessage), transcript(s))
              /\ \A key \in DOMAIN Checkpoint(s) \ {"messages"} :
                    Checkpoint(s)[key] \in Written(key)
        /\ pc[s] = "reason" => ~Unanswered(transcript(s))

\* C32 (as claimed): every external call has a bounded timeout, so a call
\* that never answers becomes a failure local to the node and no node
\* waits forever.
C32_NoNodeWaitsForever ==
    \A s \in Sessions : pc[s] # "blocked"

\* C33 (as claimed): whenever reason executes, the record it reads is the
\* one fetched for the current patient id (its text, or the placeholder of
\* a fetch that failed): record and id refer to the same patient.
C33_RecordBelongsToPatientId ==
    \A s \in Sessions :
        pc[s] = "reason" =>
            patient_data(s) \in {PatientRecordText(patient_id(s)), "Error fetching data"}

\* C34: at every invocation of reason, in any cycle of a session whose
\* earlier cycles ran to their end, every assistant turn of the transcript
\* that carries tool-call requests is followed by one tool turn per
\* request: reason is never given an unanswered request.
C34_NoUnansweredRequestAtReason ==
    \A s \in Sessions :
        pc[s] = "reason" => ~Unanswered(transcript(s))

\* C34 witness: reason is about to run in a later cycle of a session whose
\* transcript holds, from an earlier cycle, a turn with two requests.
C34_Witness ==
    \E s \in Sessions :
        /\ pc[s] = "reason"
        /\ hist[s].cycles >= 2
        /\ \E i \in 1..Len(cyc[s].before) : Len(cyc[s].before[i].tool_calls) = 2

C36_NoRetryOnceCounterAtLimit ==
    \A s \in Sessions :
        ( /\ retrieval_retries(s) - Count(cyc[s].path, "retrieve_knowledge") >= RetryLimit
          /\ LastNode(s) = "grade_documents"
          /\ pc[s] # "error" )
        => /\ Count(cyc[s].path, "retrieve_knowledge") = 1
           /\ pc[s] = "reason"

\* the case of C36: a session whose counter has reached the limit
C36_CounterAtLimit ==
    \E s \in Sessions : retrieval_retries(s) >= RetryLimit

\* C37 (as claimed): the notification turn fetch_data appends claims a
\* successful fetch only when the fetch succeeded; when the fetch raised
\* and the record is the error placeholder, the turn does not claim
\* success.
C37_NotificationReportsOutcome ==
    \A s \in Sessions :
        ( /\ LastNode(s) = "fetch_data"
          /\ patient_data(s) = "Error fetching data" )
        => transcript(s)[Len(transcript(s))].kind # "fetch_success"

\* C38 (as claimed): on the command line each submitted message causes
\* exactly one cycle of the graph: when the loop is back at its prompt, as
\* many cycles have started as messages were submitted.
C38_OneCyclePerMessage ==
    hist[MainSession].driver = "input" => hist[MainSession].cycles = started
====
